---- MODULE Spec2Model ----
(***************************************************************************)
(* One pass of FiberIntersection.connect                                   *)
(* (src/scaffold/connectivity/detailed/fiber_intersection.py).             *)
(*                                                                         *)
(* Coordinates are integers; a point is a tuple of `dimension` integers,   *)
(* a box is a pair <<lo, hi>> of points (the rtree tuple                   *)
(* (minx, miny, minz, maxx, maxy, maxz) split in two halves).              *)
(* Python lists are sequences; the 0-based index k of the source is the    *)
(* 1-based index k + 1 here, voxel ids and set indices keep their 0-based  *)
(* value.                                                                  *)
(* affinity and the values of np.random.rand() are counted in halves:      *)
(* affinity 2 is 1.0, rand 1 is 0.5; rand() never returns 1.0.             *)
(* self.transformation is None: the only concrete transform of the file,   *)
(* QuiverTransform, raises NotImplementedError from validate().            *)
(***************************************************************************)
EXTENDS Integers, Sequences, FiniteSets

\* Largest number of placed cells, presynaptic and postsynaptic together.
MaxCells == 3

\* index.Property(dimension=3)
dimension == 3
\* defaults["resolution"]
resolution == 20

VARIABLES
    affinity,             \* self.affinity, in halves
    from_morphology_set,  \* placed presynaptic cells
    to_morphology_set,    \* placed postsynaptic cells
    pc,                   \* position in connect
    i,                    \* index of the postsynaptic loop (line 72)
    c,                    \* index of the presynaptic loop (line 82)
    to_cell_tree,         \* rtree of postsynaptic boxes
    from_bounding_box,    \* grown box of the current fiber
    from_voxel_tree,      \* rtree of the current fiber's voxels
    from_map,             \* voxel id -> compartment of the current fiber
    cell_intersections,   \* result of the box query for the current fiber
    visited,              \* partners of cell_intersections already handled
    connections_out,
    compartments_out,
    morphologies_out,
    voxel_weights,        \* the p handed to the last np.random.choice
    err,                  \* the exception that ended the pass
    connect_cells         \* the calls of scaffold.connect_cells so far

vars == <<affinity, from_morphology_set, to_morphology_set, pc, i, c,
          to_cell_tree, from_bounding_box, from_voxel_tree, from_map,
          cell_intersections, visited, connections_out, compartments_out,
          morphologies_out, voxel_weights, err, connect_cells>>

----------------------------------------------------------------------------
\* Points and boxes

Axes == 1..dimension

VAdd(a, b) == [k \in Axes |-> a[k] + b[k]]

VAddScalar(a, s) == [k \in Axes |-> a[k] + s]

Min2(a, b) == IF a <= b THEN a ELSE b

Max2(a, b) == IF a >= b THEN a ELSE b

VMinimum(a, b) == [k \in Axes |-> Min2(a[k], b[k])]

VMaximum(a, b) == [k \in Axes |-> Max2(a[k], b[k])]

\* rtree's intersection test: closed boxes, touching faces intersect.
Intersects(b1, b2) ==
    \A k \in Axes : b1[1][k] <= b2[2][k] /\ b2[1][k] <= b1[2][k]

\* Index.intersection(box, objects=False): the ids of the stored boxes hit.
intersection(tree, box) == {e.id : e \in {e \in tree : Intersects(e.box, box)}}

----------------------------------------------------------------------------
\* The morphologies of the two cell types

Comp(id, start, end) == [id |-> id, start |-> start, end |-> end]

Branch(compartments, child_branches) ==
    [compartments |-> compartments, child_branches |-> child_branches]

\* from_morphology_set's morphologies, as the root branches FiberMorphology
\* builds from their compartments of the requested types.
\*   stub:   one compartment along x
\*   forked: a root compartment longer than the resolution and a child
\*           branch leaving its end along y
\*   bare:   no compartment of the requested types
FromMorphologies ==
    << [name |-> "stub",
        root_branches |->
            << Branch(<< Comp(0, <<0, 0, 0>>, <<10, 0, 0>>) >>, << >>) >>],
       [name |-> "forked",
        root_branches |->
            << Branch(<< Comp(0, <<0, 0, 0>>, <<30, 0, 0>>) >>,
                      << Branch(<< Comp(1, <<30, 0, 0>>, <<30, 20, 0>>) >>,
                                << >>) >>) >>],
       [name |-> "bare", root_branches |-> << >>] >>

\* to_morphology_set's morphologies: the voxel cloud of each (voxel
\* positions in the cell's frame, the grid size, and cloud.map, the list of
\* compartment ids of every voxel).
\*   single: one voxel
\*   spread: three voxels, apart in x and y
\*   hollow: two voxels, the first without compartments
\*   blank:  no occupied voxel
ToMorphologies ==
    << [name |-> "single",
        cloud |-> [voxels |-> << <<0, 0, 0>> >>, grid_size |-> 10,
                   map |-> << <<0>> >>]],
       [name |-> "spread",
        cloud |-> [voxels |-> << <<0, 0, 0>>, <<30, 10, 0>>, <<17, 0, 0>> >>,
                   grid_size |-> 10,
                   map |-> << <<0, 1>>, <<2>>, <<3, 4>> >>]],
       [name |-> "hollow",
        cloud |-> [voxels |-> << <<20, 0, 0>>, <<30, 10, 0>> >>,
                   grid_size |-> 10,
                   map |-> << << >>, <<0, 1>> >>]],
       [name |-> "blank",
        cloud |-> [voxels |-> << >>, grid_size |-> 10, map |-> << >>]] >>

\* MorphologySet._morphology_map: the names of the set's morphologies.
morphology_map(morphologies) ==
    [k \in 1..Len(morphologies) |-> morphologies[k].name]

\* Where the placement sets may put a cell, and with which morphology.
PrePlacements ==
    { [position |-> <<20, 0, 0>>, set_index |-> 0],
      [position |-> <<0, 0, 0>>, set_index |-> 1],
      [position |-> <<0, 0, 0>>, set_index |-> 2] }

PostPlacements ==
    { [position |-> <<10, 0, 0>>, set_index |-> 0],
      [position |-> <<30, 10, 0>>, set_index |-> 0],
      [position |-> <<0, 0, 0>>, set_index |-> 1],
      [position |-> <<0, 0, 0>>, set_index |-> 2],
      [position |-> <<0, 0, 0>>, set_index |-> 3] }

Affinities == {0, 1, 2}

\* The values np.random.rand() may return, in halves: 0.0 and 0.5.
RandValues == {0, 1}

\* MorphologySet.__getitem__ / __iter__: the cell and its morphology.
from_morpho(cell) == FromMorphologies[cell.set_index + 1]

to_morpho(cell) == ToMorphologies[cell.set_index + 1]

----------------------------------------------------------------------------
\* Interpolation (steps 2 and 4)

Dist2(a, b) ==
    (a[1] - b[1]) * (a[1] - b[1]) + (a[2] - b[2]) * (a[2] - b[2])
        + (a[3] - b[3]) * (a[3] - b[3])

\* The least number n of equal pieces of a segment of squared length d2 that
\* are no longer than the resolution.
RECURSIVE Pieces(_, _)
Pieces(d2, n) ==
    IF d2 <= (n * resolution) * (n * resolution) THEN n ELSE Pieces(d2, n + 1)

PointAt(comp, k, n) ==
    [a \in Axes |-> comp.start[a] + ((comp.end[a] - comp.start[a]) * k) \div n]

\* One compartment, cut in pieces no longer than the resolution; a piece
\* keeps the id of the compartment it is cut from.
Split(comp) ==
    LET n == Pieces(Dist2(comp.start, comp.end), 1)
    IN  [k \in 1..n |-> Comp(comp.id, PointAt(comp, k - 1, n), PointAt(comp, k, n))]

RECURSIVE SplitAll(_)
SplitAll(compartments) ==
    IF compartments = << >> THEN << >>
    ELSE Split(Head(compartments)) \o SplitAll(Tail(compartments))

\* Branch.interpolate(resolution)
interpolate(branch) ==
    [branch EXCEPT !.compartments = SplitAll(branch.compartments)]

RECURSIVE interpolate_branches(_)
interpolate_branches(branches) ==
    [k \in 1..Len(branches) |->
        LET b == interpolate(branches[k])
        IN  [b EXCEPT !.child_branches = interpolate_branches(b.child_branches)]]

----------------------------------------------------------------------------
\* Voxelization (step 5)

\* Branch.voxelize(position, bounding_box, voxel_tree, map): every
\* compartment becomes one voxel, its box, keyed by its index in map; the
\* bounding box, the tree and the map are the caller's objects, changed in
\* place.
RECURSIVE VoxelizeFrom(_, _, _, _)
VoxelizeFrom(compartments, k, position, st) ==
    IF k > Len(compartments) THEN [st EXCEPT !.v = Len(st.map)]
    ELSE LET comp == compartments[k]
             lo == VAdd(VMinimum(comp.start, comp.end), position)
             hi == VAdd(VMaximum(comp.start, comp.end), position)
         IN  VoxelizeFrom(compartments, k + 1, position,
                 [bounding_box |-> << VMinimum(st.bounding_box[1], lo),
                                      VMaximum(st.bounding_box[2], hi) >>,
                  voxel_tree |-> st.voxel_tree \cup
                                     {[id |-> Len(st.map), box |-> <<lo, hi>>]},
                  map |-> Append(st.map, comp),
                  v |-> st.v])

voxelize(branch, position, st) ==
    VoxelizeFrom(branch.compartments, 1, position, st)

\* voxelize_branches with the child branches' growth of the bounding box
\* lost: the result of the recursive call is not assigned.
RECURSIVE voxelize_branches_bbox_lost(_, _, _)
voxelize_branches_bbox_lost(branches, position, st) ==
    IF branches = << >> THEN [st EXCEPT !.v = 0]
    ELSE LET own == voxelize(Head(branches), position, st)
             sub == voxelize_branches_bbox_lost(Head(branches).child_branches,
                                                position, own)
             after == [own EXCEPT !.voxel_tree = sub.voxel_tree,
                                  !.map = sub.map]
         IN  IF Tail(branches) = << >> THEN after
             ELSE voxelize_branches_bbox_lost(Tail(branches), position, after)

\* voxelize_branches: the loop over the branches, head first; the call on
\* the child branches changes the bounding box, the tree and the map in
\* place, its return value (and with it its v) is dropped.
RECURSIVE voxelize_branches(_, _, _)
voxelize_branches(branches, position, st) ==
    IF branches = << >> THEN [st EXCEPT !.v = 0]
    ELSE LET own == voxelize(Head(branches), position, st)
             sub == voxelize_branches(Head(branches).child_branches,
                                      position, own)
             after == [own EXCEPT !.bounding_box = sub.bounding_box,
                                  !.voxel_tree = sub.voxel_tree,
                                  !.map = sub.map]
         IN  IF Tail(branches) = << >> THEN after
             ELSE voxelize_branches(Tail(branches), position, after)

----------------------------------------------------------------------------
\* The postsynaptic boxes and the voxel intersection (steps 6 and 7)

VMin(points) ==
    [a \in Axes |->
        CHOOSE m \in {points[k][a] : k \in 1..Len(points)} :
            \A k \in 1..Len(points) : m <= points[k][a]]

VMax(points) ==
    [a \in Axes |->
        CHOOSE m \in {points[k][a] : k \in 1..Len(points)} :
            \A k \in 1..Len(points) : m >= points[k][a]]

\* VoxelCloud.get_voxel_box(): the box incorporating all voxels.
get_voxel_box(cloud) ==
    << VMin(cloud.voxels), VAddScalar(VMax(cloud.voxels), cloud.grid_size) >>

\* to_box + to_offset, to_offset the cell position twice
to_box(cell) ==
    LET box == get_voxel_box(to_morpho(cell).cloud)
    IN  << VAdd(box[1], cell.position), VAdd(box[2], cell.position) >>

\* intersect_voxel_tree: for every voxel of the cloud, in order, the ids of
\* the fiber voxels its box, moved to the cell position, intersects.
intersect_voxel_tree(voxel_tree, to_cloud, to_pos) ==
    [v \in 1..Len(to_cloud.voxels) |->
        LET absolute_position == VAdd(to_cloud.voxels[v], to_pos)
            absolute_box == VAddScalar(absolute_position, to_cloud.grid_size)
        IN  intersection(voxel_tree, <<absolute_position, absolute_box>>)]

\* np.nonzero(voxel_intersections)[0], as the set of the row indices it
\* holds.  np.array turns lists of one common length k into an n x k array
\* of voxel ids (n x 0 when all are empty), whose nonzero entries are the
\* ids other than 0; lists of different lengths become an array of n list
\* objects, nonzero where the list is not empty.
nonzero_rows(voxel_intersections) ==
    LET n == Len(voxel_intersections)
        rectangular ==
            \A r \in 1..n : Cardinality(voxel_intersections[r])
                                = Cardinality(voxel_intersections[1])
    IN  IF rectangular
        THEN {r - 1 : r \in {r \in 1..n :
                         \E id \in voxel_intersections[r] : id # 0}}
        ELSE {r - 1 : r \in {r \in 1..n : voxel_intersections[r] # {}}}

\* target_comps_per_to_voxel with every compartment of the fiber as a
\* target, whatever voxel it is in.
target_comps_any_voxel(voxel_intersections, intersecting_to_voxels, map) ==
    [to_voxel_id \in intersecting_to_voxels |->
        [from_voxel_id \in 0..(Len(map) - 1) |-> map[from_voxel_id + 1]]]

\* target_comps_per_to_voxel (lines 163-175): for every to_voxel_id, one
\* target per intersecting fiber voxel, from_map[from_voxel_id]; kept as a
\* function of the voxel id so that equal entries stay apart.
target_comps_per_to_voxel(voxel_intersections, intersecting_to_voxels, map) ==
    [to_voxel_id \in intersecting_to_voxels |->
        [from_voxel_id \in voxel_intersections[to_voxel_id + 1] |->
            map[from_voxel_id + 1]]]

RECURSIVE Sum(_, _)
Sum(f, S) ==
    IF S = {} THEN 0
    ELSE LET x == CHOOSE x \in S : TRUE IN f[x] + Sum(f, S \ {x})

\* voxel_weights before the division (lines 179-182)
weights(to_map, targets) ==
    [to_voxel_id \in DOMAIN targets |->
        Len(to_map[to_voxel_id + 1]) * Cardinality(DOMAIN targets[to_voxel_id])]

\* The gate of line 142 with > for >=
gate_skips_strict(rand, aff) == rand > aff

\* np.random.rand() >= self.affinity
gate_skips(rand, aff) == rand >= aff

\* joined_map_offset taken from the other map
joined_map_offset_swapped == Len(morphology_map(ToMorphologies))

joined_map ==
    morphology_map(FromMorphologies) \o morphology_map(ToMorphologies)

joined_map_offset == Len(morphology_map(FromMorphologies))

\* np.array(rows) without the fallback: an empty list is a 1-d array.
array_plain(rows) ==
    [shape |-> IF rows = << >> THEN <<0>> ELSE <<Len(rows), Len(rows[1])>>,
     rows |-> rows]

\* np.array(rows or np.empty((0, 2)))
array_or_empty(rows) ==
    [shape |-> IF rows = << >> THEN <<0, 2>> ELSE <<Len(rows), Len(rows[1])>>,
     rows |-> rows]

----------------------------------------------------------------------------
\* The pass

\* The placed cells of a type: ids count on from first_id.
Placed(placements, first_id) ==
    [k \in 1..Len(placements) |->
        [id |-> first_id + k - 1,
         position |-> placements[k].position,
         set_index |-> placements[k].set_index]]

Init ==
    /\ affinity \in Affinities
    /\ \E npre \in 0..MaxCells :
       \E npost \in 0..(MaxCells - npre) :
         \E pre \in [1..npre -> PrePlacements],
            post \in [1..npost -> PostPlacements] :
              /\ from_morphology_set = Placed(pre, 0)
              /\ to_morphology_set = Placed(post, npre)
    /\ pc = "to_loop"
    /\ i = 0
    /\ c = 0
    /\ to_cell_tree = {}
    /\ from_bounding_box = << >>
    /\ from_voxel_tree = {}
    /\ from_map = << >>
    /\ cell_intersections = {}
    /\ visited = {}
    /\ connections_out = << >>
    /\ compartments_out = << >>
    /\ morphologies_out = << >>
    /\ voxel_weights = << >>
    /\ err = "none"
    /\ connect_cells = << >>

Inputs == <<affinity, from_morphology_set, to_morphology_set>>

FiberState == <<from_bounding_box, from_voxel_tree, from_map,
                cell_intersections, visited>>

Outputs == <<connections_out, compartments_out, morphologies_out>>

\* Lines 72-73: assert_voxelization raises for a cloud without voxels.
AssertVoxelizationFails ==
    /\ pc = "to_loop"
    /\ i < Len(to_morphology_set)
    /\ Len(to_morpho(to_morphology_set[i + 1]).cloud.voxels) = 0
    /\ pc' = "error"
    /\ err' = "IncompleteMorphologyError"
    /\ UNCHANGED <<Inputs, i, c, to_cell_tree, FiberState, Outputs,
                   voxel_weights, connect_cells>>

\* Lines 72-76: the box of postsynaptic cell i enters the tree under i.
InsertToCell ==
    /\ pc = "to_loop"
    /\ i < Len(to_morphology_set)
    /\ Len(to_morpho(to_morphology_set[i + 1]).cloud.voxels) # 0
    /\ to_cell_tree' = to_cell_tree \cup
           {[id |-> i, box |-> to_box(to_morphology_set[i + 1])]}
    /\ i' = i + 1
    /\ UNCHANGED <<Inputs, pc, c, FiberState, Outputs, voxel_weights, err,
                   connect_cells>>

\* Line 72 exhausted; lines 78-80.
ToLoopExit ==
    /\ pc = "to_loop"
    /\ i = Len(to_morphology_set)
    /\ pc' = "from_loop"
    /\ connections_out' = << >>
    /\ compartments_out' = << >>
    /\ morphologies_out' = << >>
    /\ UNCHANGED <<Inputs, i, c, to_cell_tree, FiberState, voxel_weights,
                   err, connect_cells>>

\* The fiber of a cell after steps 1 to 4 (lines 85-101).
fiber(cell) ==
    interpolate_branches(interpolate_branches(from_morpho(cell).root_branches))

\* Line 109 on a fiber without root branches: fm.root_branches[0].
FiberIndexError ==
    /\ pc = "from_loop"
    /\ c < Len(from_morphology_set)
    /\ fiber(from_morphology_set[c + 1]) = << >>
    /\ pc' = "error"
    /\ err' = "IndexError"
    /\ UNCHANGED <<Inputs, i, c, to_cell_tree, FiberState, Outputs,
                   voxel_weights, connect_cells>>

\* The voxel index of line 111 with the previous cell's entries left in
initial_voxel_state_stale(start) ==
    [bounding_box |-> <<start, start>>, voxel_tree |-> from_voxel_tree,
     map |-> from_map, v |-> 0]

\* Lines 105-112: a point as bounding box, an empty tree, an empty map.
initial_voxel_state(start) ==
    [bounding_box |-> <<start, start>>, voxel_tree |-> {}, map |-> << >>,
     v |-> 0]

\* Lines 82-132: steps 1 to 6 for presynaptic cell c.
VoxelizeFiber ==
    /\ pc = "from_loop"
    /\ c < Len(from_morphology_set)
    /\ LET from_cell == from_morphology_set[c + 1]
           root_branches == fiber(from_cell)
       IN  /\ root_branches # << >>
           /\ LET start == VAdd(root_branches[1].compartments[1].start,
                                from_cell.position)
                  st == voxelize_branches(root_branches, from_cell.position,
                                          initial_voxel_state(start))
              IN  /\ from_bounding_box' = st.bounding_box
                  /\ from_voxel_tree' = st.voxel_tree
                  /\ from_map' = st.map
                  /\ cell_intersections' =
                         intersection(to_cell_tree, st.bounding_box)
    /\ visited' = {}
    /\ pc' = "partner_loop"
    /\ UNCHANGED <<Inputs, i, c, to_cell_tree, Outputs, voxel_weights, err,
                   connect_cells>>

\* What lines 145-183 compute for a partner.
voxel_intersections_of(partner) ==
    LET to_cell == to_morphology_set[partner + 1]
    IN  intersect_voxel_tree(from_voxel_tree, to_morpho(to_cell).cloud,
                             to_cell.position)

targets_of(partner) ==
    LET vi == voxel_intersections_of(partner)
    IN  target_comps_per_to_voxel(vi, nonzero_rows(vi), from_map)

weights_of(partner) ==
    weights(to_morpho(to_morphology_set[partner + 1]).cloud.map,
            targets_of(partner))

weight_sum_of(partner) ==
    Sum(weights_of(partner), DOMAIN weights_of(partner))

Pending == cell_intersections \ visited

\* Lines 142-143: the gate fails, the partner is skipped.
GateSkip(partner) ==
    /\ pc = "partner_loop"
    /\ partner \in Pending
    /\ \E rand \in RandValues : gate_skips(rand, affinity)
    /\ visited' = visited \cup {partner}
    /\ UNCHANGED <<Inputs, pc, i, c, to_cell_tree, from_bounding_box,
                   from_voxel_tree, from_map, cell_intersections, Outputs,
                   voxel_weights, err, connect_cells>>

\* Lines 158-161: no intersecting to-voxel, on to the next partner.
NoIntersection(partner) ==
    /\ pc = "partner_loop"
    /\ partner \in Pending
    /\ \E rand \in RandValues : ~gate_skips(rand, affinity)
    /\ nonzero_rows(voxel_intersections_of(partner)) = {}
    /\ visited' = visited \cup {partner}
    /\ UNCHANGED <<Inputs, pc, i, c, to_cell_tree, from_bounding_box,
                   from_voxel_tree, from_map, cell_intersections, Outputs,
                   voxel_weights, err, connect_cells>>

\* Line 184: w / weight_sum with weight_sum = 0.
ZeroDivision(partner) ==
    /\ pc = "partner_loop"
    /\ partner \in Pending
    /\ \E rand \in RandValues : ~gate_skips(rand, affinity)
    /\ nonzero_rows(voxel_intersections_of(partner)) # {}
    /\ weight_sum_of(partner) = 0
    /\ pc' = "error"
    /\ err' = "ZeroDivisionError"
    /\ UNCHANGED <<Inputs, i, c, to_cell_tree, FiberState, Outputs,
                   voxel_weights, connect_cells>>

\* Lines 184-199: a to-voxel drawn with the normalised weights (np.random
\* .choice never draws an entry of probability 0), a compartment of each
\* side drawn from it, one row appended to each list.
Sample(partner) ==
    /\ pc = "partner_loop"
    /\ partner \in Pending
    /\ \E rand \in RandValues : ~gate_skips(rand, affinity)
    /\ nonzero_rows(voxel_intersections_of(partner)) # {}
    /\ weight_sum_of(partner) # 0
    /\ LET from_cell == from_morphology_set[c + 1]
           to_cell == to_morphology_set[partner + 1]
           to_map == to_morpho(to_cell).cloud.map
           targets == targets_of(partner)
           w == weights_of(partner)
           weight_sum == weight_sum_of(partner)
       IN  /\ voxel_weights' =
                  << [from |-> c, to |-> partner,
                      p |-> [to_voxel_id \in DOMAIN w |->
                                <<w[to_voxel_id], weight_sum>>]] >>
           /\ \E random_to_voxel_id \in {v \in DOMAIN w : w[v] > 0} :
                \E from_voxel_id \in DOMAIN targets[random_to_voxel_id],
                   k \in 1..Len(to_map[random_to_voxel_id + 1]) :
                     LET from_compartment ==
                             targets[random_to_voxel_id][from_voxel_id]
                         to_compartment == to_map[random_to_voxel_id + 1][k]
                     IN  /\ compartments_out' = Append(compartments_out,
                                <<from_compartment.id, to_compartment>>)
                         /\ morphologies_out' = Append(morphologies_out,
                                <<from_cell.set_index,
                                  joined_map_offset + to_cell.set_index>>)
                         /\ connections_out' = Append(connections_out,
                                <<from_cell.id, to_cell.id>>)
    /\ visited' = visited \cup {partner}
    /\ UNCHANGED <<Inputs, pc, i, c, to_cell_tree, from_bounding_box,
                   from_voxel_tree, from_map, cell_intersections, err,
                   connect_cells>>

\* Line 138 exhausted: on to the next presynaptic cell.
PartnerLoopExit ==
    /\ pc = "partner_loop"
    /\ Pending = {}
    /\ c' = c + 1
    /\ pc' = "from_loop"
    /\ UNCHANGED <<Inputs, i, to_cell_tree, FiberState, Outputs,
                   voxel_weights, err, connect_cells>>

\* Lines 201-207: the tables go to scaffold.connect_cells.
ConnectCells ==
    /\ pc = "from_loop"
    /\ c = Len(from_morphology_set)
    /\ connect_cells' = Append(connect_cells,
           [connections |-> array_or_empty(connections_out),
            morphologies |-> array_or_empty(morphologies_out),
            compartments |-> array_or_empty(compartments_out),
            morpho_map |-> joined_map])
    /\ pc' = "done"
    /\ UNCHANGED <<Inputs, i, c, to_cell_tree, FiberState, Outputs,
                   voxel_weights, err>>

Next ==
    \/ AssertVoxelizationFails
    \/ InsertToCell
    \/ ToLoopExit
    \/ FiberIndexError
    \/ VoxelizeFiber
    \/ \E partner \in Pending : GateSkip(partner)
    \/ \E partner \in Pending : NoIntersection(partner)
    \/ \E partner \in Pending : ZeroDivision(partner)
    \/ \E partner \in Pending : Sample(partner)
    \/ PartnerLoopExit
    \/ ConnectCells

Spec == Init /\ [][Next]_vars

----------------------------------------------------------------------------
\* Geometry of a pair of cells, for the properties below

\* The box of voxel w (1-based) of a postsynaptic cell, at the cell position.
AbsVoxelBox(to_cell, w) ==
    LET cloud == ToMorphologies[to_cell.set_index + 1].cloud
        lo == VAdd(cloud.voxels[w], to_cell.position)
    IN  <<lo, VAddScalar(lo, cloud.grid_size)>>

ToVoxels(to_cell) ==
    1..Len(ToMorphologies[to_cell.set_index + 1].cloud.voxels)

ToMap(to_cell) == ToMorphologies[to_cell.set_index + 1].cloud.map

\* The voxel index and map of a presynaptic cell, voxelized on its own.
FiberIndex(from_cell) ==
    LET root_branches == fiber(from_cell)
    IN  voxelize_branches(root_branches, from_cell.position,
            initial_voxel_state(VAdd(root_branches[1].compartments[1].start,
                                     from_cell.position)))

\* The fiber voxels of an index that intersect voxel w of a cell.
Overlapping(tree, to_cell, w) ==
    {e \in tree : Intersects(e.box, AbsVoxelBox(to_cell, w))}

\* The voxels of a cell that some voxel of the index intersects.
OverlappedVoxels(tree, to_cell) ==
    {w \in ToVoxels(to_cell) : Overlapping(tree, to_cell, w) # {}}

FromCellById(id) ==
    CHOOSE cell \in {from_morphology_set[k] : k \in 1..Len(from_morphology_set)} :
        cell.id = id

ToCellById(id) ==
    CHOOSE cell \in {to_morphology_set[k] : k \in 1..Len(to_morphology_set)} :
        cell.id = id

Rows(pair) == {k \in 1..Len(connections_out) : connections_out[k] = pair}

RECURSIVE AllCompartments(_)
AllCompartments(branches) ==
    IF branches = << >> THEN << >>
    ELSE Head(branches).compartments
             \o AllCompartments(Head(branches).child_branches)
             \o AllCompartments(Tail(branches))

Elems(seq) == {seq[k] : k \in 1..Len(seq)}

Within(inner, outer) ==
    \A a \in Axes : outer[1][a] <= inner[1][a] /\ inner[2][a] <= outer[2][a]

----------------------------------------------------------------------------
\* Properties

\* C1: with affinity 1, every candidate of the box query that has a
\* postsynaptic voxel overlapping a voxel of the fiber gets exactly one
\* connection record once it has been handled, whatever the ids of the
\* overlapping voxels; no pair ever gets more than one.
C1_OneRecordPerOverlappingCandidate ==
    /\ \A f \in Elems(from_morphology_set), t \in Elems(to_morphology_set) :
           Cardinality(Rows(<<f.id, t.id>>)) <= 1
    /\ (affinity = 2 /\ pc = "partner_loop") =>
           \A partner \in visited :
               LET to_cell == to_morphology_set[partner + 1]
               IN  OverlappedVoxels(from_voxel_tree, to_cell) # {} =>
                       Cardinality(Rows(<<from_morphology_set[c + 1].id,
                                          to_cell.id>>)) = 1

\* C2: every record references a postsynaptic compartment of a voxel W of
\* the postsynaptic cell's cloud and a presynaptic compartment of a voxel of
\* the presynaptic cell's own index whose box intersects W at the cell
\* position; a pair without overlapping voxels therefore has no record.
C2_RecordFromOverlappingVoxels ==
    /\ Len(compartments_out) = Len(connections_out)
    /\ \A k \in 1..Len(connections_out) :
           LET from_cell == FromCellById(connections_out[k][1])
               to_cell == ToCellById(connections_out[k][2])
               index == FiberIndex(from_cell)
           IN  \E w \in ToVoxels(to_cell) :
                   /\ compartments_out[k][2] \in Elems(ToMap(to_cell)[w])
                   /\ \E e \in Overlapping(index.voxel_tree, to_cell, w) :
                          index.map[e.id + 1].id = compartments_out[k][1]

\* A record of a forked fiber on a cloud of which it overlaps every voxel,
\* each with another part of the fiber.
C2_Witness ==
    \E k \in 1..Len(connections_out) :
        /\ FromCellById(connections_out[k][1]).set_index = 1
        /\ ToCellById(connections_out[k][2]).set_index = 1

\* C3: a candidate that passed the gate and has overlapping voxels whose
\* weights sum to zero is skipped: no error ends the pass on it.
C3_ZeroWeightSumSkipped ==
    \A partner \in Pending :
        LET to_cell == to_morphology_set[partner + 1]
            overlapped == OverlappedVoxels(from_voxel_tree, to_cell)
        IN  (/\ pc = "error"
             /\ overlapped # {}
             /\ \A w \in overlapped : Len(ToMap(to_cell)[w]) = 0)
                => err # "ZeroDivisionError"

\* C4: when a morphology of the pass, presynaptic or postsynaptic, has
\* nothing to intersect for the requested compartment types, the pass ends
\* with IncompleteMorphologyError and never calls connect_cells.
C4_EmptyMorphologyFails ==
    LET empty ==
            \/ \E f \in Elems(from_morphology_set) :
                   FromMorphologies[f.set_index + 1].root_branches = << >>
            \/ \E t \in Elems(to_morphology_set) :
                   ToMorphologies[t.set_index + 1].cloud.voxels = << >>
    IN  (empty /\ pc \in {"done", "error"}) =>
            /\ err = "IncompleteMorphologyError"
            /\ connect_cells = << >>

\* C5: connect_cells is called at most once, never on a pass that raised,
\* and exactly once when the pass ends without error: after the last
\* presynaptic cell, with one row per record; without records the tables
\* are empty arrays of 0 rows and 2 columns.
C5_OneDelivery ==
    /\ Len(connect_cells) <= 1
    /\ pc = "error" => connect_cells = << >>
    /\ pc # "done" => connect_cells = << >>
    /\ pc = "done" =>
           /\ err = "none"
           /\ Len(connect_cells) = 1
           /\ c = Len(from_morphology_set)
           /\ connect_cells[1].connections.rows = connections_out
           /\ connect_cells[1].morphologies.rows = morphologies_out
           /\ connect_cells[1].compartments.rows = compartments_out
           /\ connect_cells[1].connections.shape = <<Len(connections_out), 2>>
           /\ connect_cells[1].morphologies.shape = <<Len(connections_out), 2>>
           /\ connect_cells[1].compartments.shape = <<Len(connections_out), 2>>

\* A finished pass over cells of both types that produced no record.
C5_Witness ==
    /\ pc = "done"
    /\ connections_out = << >>
    /\ from_morphology_set # << >>
    /\ visited # {}

\* C6: once a fiber is voxelized its bounding box covers every compartment
\* of every branch, and every postsynaptic cell with a voxel that
\* intersects a voxel of the fiber's index has its box intersected by the
\* bounding box and is among cell_intersections.
C6_NoFalseNegatives ==
    pc = "partner_loop" =>
        LET from_cell == from_morphology_set[c + 1]
        IN  /\ \A comp \in Elems(AllCompartments(fiber(from_cell))) :
                   /\ Within(<<VAdd(comp.start, from_cell.position),
                               VAdd(comp.start, from_cell.position)>>,
                             from_bounding_box)
                   /\ Within(<<VAdd(comp.end, from_cell.position),
                               VAdd(comp.end, from_cell.position)>>,
                             from_bounding_box)
            /\ \A j \in 1..Len(to_morphology_set) :
                   OverlappedVoxels(from_voxel_tree, to_morphology_set[j]) # {}
                       => /\ \E e \in to_cell_tree :
                                /\ e.id = j - 1
                                /\ Intersects(from_bounding_box, e.box)
                          /\ (j - 1) \in cell_intersections

\* A cell that only a voxel of a child branch reaches.
C6_Witness ==
    /\ pc = "partner_loop"
    /\ \E j \in 1..Len(to_morphology_set) :
           /\ OverlappedVoxels(from_voxel_tree, to_morphology_set[j]) # {}
           /\ \A w \in ToVoxels(to_morphology_set[j]) :
                  \A e \in Overlapping(from_voxel_tree, to_morphology_set[j], w) :
                      e.id = 2

\* C7: the weights handed to the draw have one entry per postsynaptic
\* voxel with an overlapping presynaptic voxel: (compartments of the voxel)
\* x (compartments of its overlapping presynaptic voxels), over the sum of
\* these products for all such voxels of the pair.
C7_WeightsOfAllOverlappedVoxels ==
    \A k \in 1..Len(voxel_weights) :
        LET from_cell == from_morphology_set[voxel_weights[k].from + 1]
            to_cell == to_morphology_set[voxel_weights[k].to + 1]
            tree == FiberIndex(from_cell).voxel_tree
            overlapped == OverlappedVoxels(tree, to_cell)
            weight == [w \in overlapped |->
                          Len(ToMap(to_cell)[w])
                              * Cardinality(Overlapping(tree, to_cell, w))]
        IN  /\ DOMAIN voxel_weights[k].p = {w - 1 : w \in overlapped}
            /\ \A w \in overlapped :
                   voxel_weights[k].p[w - 1] = <<weight[w], Sum(weight, overlapped)>>

\* C8: with affinity 0 no record is ever appended, no candidate ends the
\* pass with an error, and the tables handed to connect_cells are empty.
C8_AffinityZeroEmitsNothing ==
    affinity = 0 =>
        /\ connections_out = << >>
        /\ compartments_out = << >>
        /\ morphologies_out = << >>
        /\ err # "ZeroDivisionError"
        /\ \A k \in 1..Len(connect_cells) :
               /\ connect_cells[k].connections.rows = << >>
               /\ connect_cells[k].connections.shape[1] = 0

\* A finished pass with affinity 0 whose last fiber had candidates.
C8_Witness ==
    /\ affinity = 0
    /\ pc = "done"
    /\ visited # {}
    /\ \E partner \in visited :
           OverlappedVoxels(from_voxel_tree, to_morphology_set[partner + 1]) # {}

\* C9: the three lists have the same length; row k of morphologies_out is
\* the index of the presynaptic morphology in its map and the index of the
\* postsynaptic morphology plus the length of the presynaptic map, both
\* positions of the joined map that name the morphologies of the cells of
\* row k of connections_out.
C9_ParallelRows ==
    /\ Len(connections_out) = Len(compartments_out)
    /\ Len(connections_out) = Len(morphologies_out)
    /\ \A k \in 1..Len(connections_out) :
           LET from_cell == FromCellById(connections_out[k][1])
               to_cell == ToCellById(connections_out[k][2])
               row == morphologies_out[k]
           IN  /\ row[1] = from_cell.set_index
               /\ row[2] = to_cell.set_index + Len(FromMorphologies)
               /\ row[1] \in 0..(Len(joined_map) - 1)
               /\ row[2] \in 0..(Len(joined_map) - 1)
               /\ joined_map[row[1] + 1] = FromMorphologies[from_cell.set_index + 1].name
               /\ joined_map[row[2] + 1] = ToMorphologies[to_cell.set_index + 1].name

\* Two records of two presynaptic cells.
C9_Witness ==
    \E k, l \in 1..Len(connections_out) :
        connections_out[k][1] # connections_out[l][1]

\* C10: from the first presynaptic cell on, to_cell_tree holds exactly one
\* box per postsynaptic cell, the cloud's voxel box moved to the cell
\* position under the cell's index, and no step changes it; the voxel index
\* and map of a fiber hold the voxels of that fiber alone.
C10_TreeBuiltOnceFiberIndexFresh ==
    /\ [](pc \in {"from_loop", "partner_loop", "done"} =>
            to_cell_tree =
                {[id |-> k - 1,
                  box |-> LET cell == to_morphology_set[k]
                              box == get_voxel_box(ToMorphologies[cell.set_index + 1].cloud)
                          IN  <<VAdd(box[1], cell.position),
                                VAdd(box[2], cell.position)>>] :
                    k \in 1..Len(to_morphology_set)})
    /\ [](pc = "partner_loop" =>
            LET comps == AllCompartments(fiber(from_morphology_set[c + 1]))
            IN  /\ {e.id : e \in from_voxel_tree} = 0..(Len(comps) - 1)
                /\ Cardinality(from_voxel_tree) = Len(comps)
                /\ from_map = comps)
    /\ [][(pc \in {"from_loop", "partner_loop"}) => (to_cell_tree' = to_cell_tree)]_vars

\* The second fiber of a pass is voxelized, after a first with other voxels.
C10_Witness ==
    /\ pc = "partner_loop"
    /\ c = 1
    /\ to_cell_tree # {}
    /\ from_morphology_set[1].set_index # from_morphology_set[2].set_index

====
